---- MODULE Spec2Model ----
(***************************************************************************)
(* Model of comfyui-encrypt: rsa_encrypt.py (hybrid RSA-OAEP + AES-256-CBC *)
(* encryption of byte buffers, images and files).                          *)
(*                                                                         *)
(* Bytes are integers 0..255 and buffers are sequences of bytes.  The      *)
(* primitives of the `cryptography` package are modelled by small keyed    *)
(* functions with the same contracts (a keyed block permutation chained in *)
(* CBC mode with a real XOR; a key wrap that only the matching private key *)
(* opens); everything rsa_encrypt.py does itself (padding, slicing,        *)
(* concatenation, file I/O, type dispatch) is modelled step by step.       *)
(***************************************************************************)
EXTENDS Integers, Sequences, FiniteSets

(***************************************************************************)
(* Bounds of the model.                                                    *)
(***************************************************************************)
MaxLen == 32          \* longest plaintext buffer drawn as an input
MaxEncrypts == 2      \* encrypt calls per behaviour (caps the entropy counter)

(***************************************************************************)
(* Program constants.                                                      *)
(***************************************************************************)
BLOCK == 16           \* AES block size used by the padding arithmetic
IV_SIZE == 16         \* iv_size in decrypt_bytes, os.urandom(16) in encrypt_bytes
AES_KEY_SIZE == 32    \* os.urandom(32)

(***************************************************************************)
(* Byte helpers.                                                           *)
(***************************************************************************)
RECURSIVE XorBits(_, _, _)
XorBits(a, b, n) ==
    IF n = 0 THEN 0
    ELSE (((a % 2) + (b % 2)) % 2) + 2 * XorBits(a \div 2, b \div 2, n - 1)

\* XOR of two 4-bit values, tabulated once.
XorNibble == [a \in 0..15 |-> [b \in 0..15 |-> XorBits(a, b, 4)]]

\* a ^ b on bytes
Xor(a, b) == (16 * XorNibble[a \div 16][b \div 16]) + XorNibble[a % 16][b % 16]

XorSeq(s, t) == [i \in 1..Len(s) |-> Xor(s[i], t[i])]

\* Python slice s[lo:hi] with 0 <= lo, 0 <= hi (0-based, hi exclusive, clamped).
Slice(s, lo, hi) ==
    LET h == IF hi > Len(s) THEN Len(s) ELSE hi
    IN  IF lo >= h THEN <<>> ELSE SubSeq(s, lo + 1, h)

\* bytes([v] * n)
Repeat(v, n) == [i \in 1..n |-> v]

(***************************************************************************)
(* Results of calls: a value or a raised exception.  `at` names the call   *)
(* that raised it.                                                         *)
(***************************************************************************)
Ok(v) == [ok |-> TRUE, val |-> v, exc |-> "", at |-> ""]
Err(e, where) == [ok |-> FALSE, val |-> <<>>, exc |-> e, at |-> where]

\* The spec's error kinds, as the exceptions the code raises for them.
DecryptionFailed == Err("ValueError", "private_key.decrypt")
UnsupportedPayloadType == Err("TypeError", "_ensure_bytes")
PlaintextTooLargeForKey == Err("ValueError", "public_key.encrypt")

(***************************************************************************)
(* Keys.  generate_rsa_keypair returns (private_pem, public_pem); `id`     *)
(* stands for the primes the generator drew.                               *)
(***************************************************************************)
generate_rsa_keypair(id, key_size) ==
    [private |-> [kind |-> "PRIVATE KEY", id |-> id, key_size |-> key_size],
     public  |-> [kind |-> "PUBLIC KEY",  id |-> id, key_size |-> key_size]]

\* The keypairs of a behaviour: two 2048-bit keys and one 4096-bit key.
Keyring == << generate_rsa_keypair(1, 2048),
              generate_rsa_keypair(2, 2048),
              generate_rsa_keypair(3, 4096) >>

KeyIds == DOMAIN Keyring

\* serialization.load_pem_public_key / load_pem_private_key
load_pem_public_key(pem) ==
    IF pem.kind = "PUBLIC KEY" THEN Ok(pem)
    ELSE Err("ValueError", "load_pem_public_key")

load_pem_private_key(pem) ==
    IF pem.kind = "PRIVATE KEY" THEN Ok(pem)
    ELSE Err("ValueError", "load_pem_private_key")

(***************************************************************************)
(* os.urandom: the n bytes of the c-th draw from the system entropy        *)
(* source.  A secure source does not repeat a draw; the model makes the    *)
(* draws pairwise different (131 is odd, so byte 1 determines c mod 256).  *)
(***************************************************************************)
urandom(n, c) == [i \in 1..n |-> ((c * 131) + (i * 29) + 7) % 256]

(***************************************************************************)
(* RSA-OAEP key wrap.  The wrapped segment has the length of the modulus;  *)
(* it carries the modulus' fingerprint, the OAEP seed, the masked length   *)
(* and message, and a seed-dependent fill that the unwrap verifies.        *)
(***************************************************************************)
Fingerprint(id) == ((id * 53) + 17) % 256

OaepMask(seed, i) == ((seed * 7) + (i * 13) + 5) % 256

OAEP_OVERHEAD == (2 * 32) + 2   \* 2 * hLen + 2 for SHA-256

OaepFill(seed) == ((seed * 3) + 1) % 256

rsa_oaep_encrypt(public_key, msg, c) ==
    LET k    == public_key.key_size \div 8
        seed == urandom(1, c)[1]
    IN  IF Len(msg) > k - OAEP_OVERHEAD
        THEN PlaintextTooLargeForKey
        ELSE Ok(<<Fingerprint(public_key.id), seed, (Len(msg) + seed) % 256>>
                \o [i \in 1..Len(msg) |-> (msg[i] + OaepMask(seed, i)) % 256]
                \o Repeat(OaepFill(seed), k - 3 - Len(msg)))

rsa_oaep_decrypt(private_key, seg) ==
    LET k    == private_key.key_size \div 8
        seed == seg[2]
        n    == (seg[3] + 256 - seed) % 256
    IN  IF Len(seg) # k THEN DecryptionFailed
        ELSE IF seg[1] # Fingerprint(private_key.id) THEN DecryptionFailed
        ELSE IF n > k - OAEP_OVERHEAD THEN DecryptionFailed
        ELSE IF SubSeq(seg, n + 4, k) # Repeat(OaepFill(seed), k - 3 - n)
        THEN DecryptionFailed
        ELSE Ok([i \in 1..n |-> (seg[i + 3] + 256 - OaepMask(seed, i)) % 256])

(***************************************************************************)
(* AES-256-CBC.  The block cipher is a keyed permutation of 16-byte        *)
(* blocks (rotate the positions, add key bytes); CBC chains it with XOR.   *)
(***************************************************************************)
Rot(i) == (i % BLOCK) + 1

AesEncryptBlock(key, b) ==
    [i \in 1..BLOCK |-> (b[Rot(i)] + key[i] + key[i + BLOCK]) % 256]

AesDecryptBlock(key, c) ==
    LET pre(j) == IF j = 1 THEN BLOCK ELSE j - 1     \* Rot(pre(j)) = j
    IN  [j \in 1..BLOCK |->
            (c[pre(j)] + 512 - key[pre(j)] - key[pre(j) + BLOCK]) % 256]

RECURSIVE CbcEncrypt(_, _, _)
CbcEncrypt(key, prev, data) ==
    IF Len(data) = 0 THEN <<>>
    ELSE LET c == AesEncryptBlock(key, XorSeq(SubSeq(data, 1, BLOCK), prev))
         IN  c \o CbcEncrypt(key, c, SubSeq(data, BLOCK + 1, Len(data)))

RECURSIVE CbcDecrypt(_, _, _)
CbcDecrypt(key, prev, data) ==
    IF Len(data) = 0 THEN <<>>
    ELSE LET c == SubSeq(data, 1, BLOCK)
         IN  XorSeq(AesDecryptBlock(key, c), prev)
             \o CbcDecrypt(key, c, SubSeq(data, BLOCK + 1, Len(data)))

\* Cipher(algorithms.AES(key), modes.CBC(iv)).encryptor(): update + finalize
aes_cbc_encrypt(aes_key, iv, padded_data) ==
    IF Len(padded_data) % BLOCK # 0
    THEN Err("ValueError", "encryptor.finalize")
    ELSE Ok(CbcEncrypt(aes_key, iv, padded_data))

\* Cipher(algorithms.AES(key), modes.CBC(iv)).decryptor(): update + finalize
aes_cbc_decrypt(aes_key, iv, ciphertext) ==
    IF Len(aes_key) \notin {16, 24, 32} THEN Err("ValueError", "algorithms.AES")
    ELSE IF Len(iv) # BLOCK THEN Err("ValueError", "modes.CBC")
    ELSE IF Len(ciphertext) % BLOCK # 0
    THEN Err("ValueError", "decryptor.finalize")
    ELSE Ok(CbcDecrypt(aes_key, iv, ciphertext))

(***************************************************************************)
(* encrypt_bytes.  c is the state of the entropy source on entry; the call *)
(* draws the AES key, the IV and (inside public_key.encrypt) the OAEP      *)
(* seed, in this order.                                                    *)
(***************************************************************************)
\* Variant of pkcs7_pad: no padding block for a block-aligned buffer.
pkcs7_pad_aligned(data) ==
    LET padding_length == (BLOCK - (Len(data) % BLOCK)) % BLOCK
    IN  data \o Repeat(padding_length, padding_length)

\* Variant of pkcs7_pad: the padding bytes are zero.
pkcs7_pad_zero(data) ==
    LET padding_length == BLOCK - (Len(data) % BLOCK)
    IN  data \o Repeat(0, padding_length)

pkcs7_pad(data) ==
    LET padding_length == BLOCK - (Len(data) % BLOCK)
    IN  data \o Repeat(padding_length, padding_length)

\* encrypt_bytes, given the indices of its three draws from os.urandom.
encrypt_bytes_with(data, public_key_pem, ck, civ, cs) ==
    LET public_key == load_pem_public_key(public_key_pem)
        aes_key == urandom(AES_KEY_SIZE, ck)
        iv == urandom(IV_SIZE, civ)
        encrypted_aes_key == rsa_oaep_encrypt(public_key.val, aes_key, cs)
        padded_data == pkcs7_pad(data)
        encrypted_data == aes_cbc_encrypt(aes_key, iv, padded_data)
    IN  IF ~public_key.ok THEN public_key
        ELSE IF ~encrypted_aes_key.ok THEN encrypted_aes_key
        ELSE IF ~encrypted_data.ok THEN encrypted_data
        ELSE Ok(encrypted_aes_key.val \o iv \o encrypted_data.val)

\* Variant of encrypt_bytes: the AES key and the IV are drawn once and kept.
encrypt_bytes_static(data, public_key_pem, c) ==
    LET public_key == load_pem_public_key(public_key_pem)
        aes_key == urandom(AES_KEY_SIZE, 0)
        iv == urandom(IV_SIZE, 1)
        encrypted_aes_key == rsa_oaep_encrypt(public_key.val, aes_key, c + 2)
        padded_data == pkcs7_pad(data)
        encrypted_data == aes_cbc_encrypt(aes_key, iv, padded_data)
    IN  IF ~public_key.ok THEN public_key
        ELSE IF ~encrypted_aes_key.ok THEN encrypted_aes_key
        ELSE IF ~encrypted_data.ok THEN encrypted_data
        ELSE Ok(encrypted_aes_key.val \o iv \o encrypted_data.val)

encrypt_bytes(data, public_key_pem, c) ==
    encrypt_bytes_with(data, public_key_pem, c, c + 1, c + 2)

\* Entropy draws of one encrypt_bytes call that got past the key parsing.
DRAWS_PER_ENCRYPT == 1 + 1 + 1

(***************************************************************************)
(* decrypt_bytes.                                                          *)
(***************************************************************************)
\* padding_length = padded_plaintext[-1]; padded_plaintext[:-padding_length]
pkcs7_strip(padded_plaintext) ==
    IF Len(padded_plaintext) = 0
    THEN Err("IndexError", "padded_plaintext[-1]")
    ELSE LET padding_length == padded_plaintext[Len(padded_plaintext)]
             keep == Len(padded_plaintext) - padding_length
         IN  IF padding_length = 0 THEN Ok(<<>>)      \* s[:-0] is s[:0]
             ELSE Ok(Slice(padded_plaintext, 0, IF keep < 0 THEN 0 ELSE keep))

\* Variant of decrypt_padded: the wrapped key is taken to be 256 bytes long,
\* as the docstring of encrypt_bytes words it.
decrypt_padded_256(encrypted_data, private_key_pem) ==
    LET private_key == load_pem_private_key(private_key_pem)
        key_size == 256
        encrypted_aes_key == Slice(encrypted_data, 0, key_size)
        iv == Slice(encrypted_data, key_size, key_size + IV_SIZE)
        ciphertext == Slice(encrypted_data, key_size + IV_SIZE,
                            Len(encrypted_data))
        aes_key == rsa_oaep_decrypt(
                       [private_key.val EXCEPT !.key_size = 8 * key_size],
                       encrypted_aes_key)
    IN  IF ~private_key.ok THEN private_key
        ELSE IF ~aes_key.ok THEN aes_key
        ELSE aes_cbc_decrypt(aes_key.val, iv, ciphertext)

\* Variant of decrypt_padded: a failed unwrap is caught and decryption goes
\* on with an all-zero AES key.
decrypt_padded_lenient(encrypted_data, private_key_pem) ==
    LET private_key == load_pem_private_key(private_key_pem)
        key_size == private_key.val.key_size \div 8
        encrypted_aes_key == Slice(encrypted_data, 0, key_size)
        iv == Slice(encrypted_data, key_size, key_size + IV_SIZE)
        ciphertext == Slice(encrypted_data, key_size + IV_SIZE,
                            Len(encrypted_data))
        aes_key == rsa_oaep_decrypt(private_key.val, encrypted_aes_key)
    IN  IF ~private_key.ok THEN private_key
        ELSE aes_cbc_decrypt(IF aes_key.ok THEN aes_key.val
                             ELSE Repeat(0, AES_KEY_SIZE), iv, ciphertext)

\* The AES-decrypted buffer of a decrypt_bytes call (its local
\* padded_plaintext), or the exception raised before it exists.
decrypt_padded(encrypted_data, private_key_pem) ==
    LET private_key == load_pem_private_key(private_key_pem)
        key_size == private_key.val.key_size \div 8
        encrypted_aes_key == Slice(encrypted_data, 0, key_size)
        iv == Slice(encrypted_data, key_size, key_size + IV_SIZE)
        ciphertext == Slice(encrypted_data, key_size + IV_SIZE,
                            Len(encrypted_data))
        aes_key == rsa_oaep_decrypt(private_key.val, encrypted_aes_key)
    IN  IF ~private_key.ok THEN private_key
        ELSE IF ~aes_key.ok THEN aes_key
        ELSE aes_cbc_decrypt(aes_key.val, iv, ciphertext)

\* The rest of decrypt_bytes, given the outcome of the steps before.
decrypt_finish(padded_plaintext) ==
    IF ~padded_plaintext.ok THEN padded_plaintext
    ELSE pkcs7_strip(padded_plaintext.val)

decrypt_bytes(encrypted_data, private_key_pem) ==
    decrypt_finish(decrypt_padded(encrypted_data, private_key_pem))

(***************************************************************************)
(* Payload objects handed to encrypt_image: bytes, PIL images, and objects *)
(* of other types.                                                         *)
(***************************************************************************)
Bytes(v) == [type |-> "bytes", val |-> v, mode |-> "", size |-> <<0, 0>>]

PilImage(mode, size, pixels) ==
    [type |-> "Image", val |-> pixels, mode |-> mode, size |-> size]

Other(type, v) == [type |-> type, val |-> v, mode |-> "", size |-> <<0, 0>>]

\* Image.save(buf, format="PNG"): the PNG signature, a header with the size
\* and the colour type of the mode, then the pixel data.
PNG_SIGNATURE == <<137, 80, 78, 71, 13, 10, 26, 10>>

PngColourType(mode) ==
    CASE mode = "L" -> 0 [] mode = "RGB" -> 2 [] mode = "RGBA" -> 6

\* Variant of Image.save: a lossy codec that quantises the samples.
png_save_lossy(img) ==
    PNG_SIGNATURE \o <<img.size[1], img.size[2], PngColourType(img.mode)>>
    \o [i \in DOMAIN img.val |-> (img.val[i] \div 8) * 8]

png_save(img) ==
    PNG_SIGNATURE \o <<img.size[1], img.size[2], PngColourType(img.mode)>>
    \o img.val

\* Variant of _ensure_bytes: any other object is coerced with bytes(obj).
ensure_bytes_coerce(obj) ==
    IF obj.type = "bytes" THEN Ok(obj.val)
    ELSE IF obj.type = "Image" THEN Ok(png_save(obj))
    ELSE Ok(obj.val)

\* _ensure_bytes
ensure_bytes(obj) ==
    IF obj.type = "bytes" THEN Ok(obj.val)
    ELSE IF obj.type = "Image" THEN Ok(png_save(obj))
    ELSE UnsupportedPayloadType

\* encrypt_image
encrypt_image(img, public_key_pem, c) ==
    LET data == ensure_bytes(img)
    IN  IF ~data.ok THEN data ELSE encrypt_bytes(data.val, public_key_pem, c)

\* Image.open(BytesIO(data)): the buffer is identified by its signature and
\* its header is parsed; the pixel data is what follows the header.  A buffer
\* that is no image file raises PIL.UnidentifiedImageError.
PNG_HEADER_SIZE == Len(PNG_SIGNATURE) + 3

PngMode(colour_type) ==
    CASE colour_type = 0 -> "L" [] colour_type = 2 -> "RGB"
      [] colour_type = 6 -> "RGBA"

png_open(data) ==
    IF \/ Len(data) < PNG_HEADER_SIZE
       \/ Slice(data, 0, Len(PNG_SIGNATURE)) # PNG_SIGNATURE
       \/ data[PNG_HEADER_SIZE] \notin {0, 2, 6}
    THEN Err("UnidentifiedImageError", "Image.open")
    ELSE Ok(PilImage(PngMode(data[PNG_HEADER_SIZE]),
                     <<data[Len(PNG_SIGNATURE) + 1],
                       data[Len(PNG_SIGNATURE) + 2]>>,
                     Slice(data, PNG_HEADER_SIZE, Len(data))))

\* decrypt_image
decrypt_image(encrypted_data, private_key_pem) ==
    LET data == decrypt_bytes(encrypted_data, private_key_pem)
    IN  IF ~data.ok THEN data ELSE png_open(data.val)

(***************************************************************************)
(* Inputs.                                                                 *)
(***************************************************************************)
Lens == {n \in 0..MaxLen : n % BLOCK \in {0, 1, 6, 15}}

\* Buffer contents: a ramp, and constant fills that look like padding bytes.
Pattern(p, n) ==
    [i \in 1..n |-> CASE p = 1 -> ((i * 37) + 11) % 256
                      [] p = 2 -> 16
                      [] p = 3 -> 1]

Buffers == {Pattern(p, n) : p \in 1..3, n \in Lens}

Images == { PilImage("L", <<1, 1>>, <<200>>),
            PilImage("RGB", <<2, 1>>, <<255, 0, 0, 255, 0, 0>>),
            PilImage("RGBA", <<1, 1>>, <<255, 0, 0, 128>>) }

Others == { Other("str", <<104, 105>>), Other("bytearray", <<1, 2, 3>>),
            Other("NoneType", <<>>) }

Payloads == {Bytes(b) : b \in Buffers} \cup Images \cup Others

PublicPems == {Keyring[k].public : k \in KeyIds}
PrivatePems == {Keyring[k].private : k \in KeyIds}

\* Recipients of the encrypt calls: a 2048-bit key and the 4096-bit key.
EncryptPems == {Keyring[1].public, Keyring[3].public}

(***************************************************************************)
(* Damage done to a wire payload in storage or transport before it is      *)
(* handed to decrypt_bytes.                                                *)
(***************************************************************************)
Tampers == {"none", "pad_x16", "pad_x3", "wrapped", "no_ciphertext",
            "drop_last"}


FlipAt(s, pos, delta) == [s EXCEPT ![pos] = Xor(s[pos], delta)]

\* Under CBC the byte BLOCK places before the last one is XORed into the
\* last plaintext byte, the padding length.
Tamper(payload, t, key_size) ==
    CASE t = "none" -> payload
      [] t = "pad_x16" -> FlipAt(payload, Len(payload) - BLOCK, 16)
      [] t = "pad_x3" -> FlipAt(payload, Len(payload) - BLOCK, 3)
      [] t = "wrapped" -> FlipAt(payload, 1, 1)
      [] t = "no_ciphertext" -> Slice(payload, 0, key_size + IV_SIZE)
      [] t = "drop_last" -> Slice(payload, 0, Len(payload) - 1)

(***************************************************************************)
(* State.                                                                  *)
(***************************************************************************)
VARIABLES
    original,   \* the payload object the caller encrypts
    wires,      \* wire payloads produced so far, in order, with their origin
    call,       \* the last call: operation, arguments, locals, result
    entropy,    \* number of draws taken from os.urandom
    files,      \* file system: path -> content, or NoFile
    dirs,       \* file system: the directories that exist
    job,        \* concurrent calls: the operation and arguments of each
    pc,         \* concurrent calls: the position of each in its code
    local       \* concurrent calls: the local variables of each

concVars == <<job, pc, local>>

vars == <<original, wires, call, entropy, files, dirs, job, pc, local>>

NoFile == [exists |-> FALSE, content |-> <<>>]
File(b) == [exists |-> TRUE, content |-> b]

NoPem == [kind |-> "", id |-> 0, key_size |-> 0]
NoResult == Err("", "")

NoCall == [op |-> "", pem |-> NoPem, w |-> 0, tamper |-> "",
           cipher_in |-> NoResult, padded |-> NoResult, result |-> NoResult,
           in_path |-> "", out_path |-> ""]

(***************************************************************************)
(* Byte and image API: each action is one call.                            *)
(***************************************************************************)
Init ==
    /\ original \in Payloads
    /\ wires = <<>>
    /\ call = NoCall
    /\ entropy = 0
    /\ files = <<>>
    /\ dirs = {}
    /\ job = <<>> /\ pc = <<>> /\ local = <<>>

\* The entropy counter after a call of encrypt_bytes that returned r.
EntropyAfter(r, c) ==
    IF ~r.ok /\ r.at = "load_pem_public_key" THEN c ELSE c + DRAWS_PER_ENCRYPT

Emit(ws, data, pem, r) ==
    IF r.ok THEN Append(ws, [data |-> data, kid |-> pem.id, payload |-> r.val])
    ELSE ws

EncryptBytes(pem) ==
    /\ original.type = "bytes"
    /\ Len(wires) < MaxEncrypts
    /\ LET r == encrypt_bytes(original.val, pem, entropy)
       IN  /\ call' = [NoCall EXCEPT !.op = "encrypt_bytes", !.pem = pem,
                                     !.cipher_in = Ok(original.val),
                                     !.result = r]
           /\ wires' = Emit(wires, original.val, pem, r)
           /\ entropy' = EntropyAfter(r, entropy)
    /\ UNCHANGED <<original, files, dirs, concVars>>

EncryptImage(pem) ==
    /\ Len(wires) < MaxEncrypts
    /\ LET data == ensure_bytes(original)
           r == encrypt_image(original, pem, entropy)
       IN  /\ call' = [NoCall EXCEPT !.op = "encrypt_image", !.pem = pem,
                                     !.cipher_in = data, !.result = r]
           /\ wires' = IF data.ok THEN Emit(wires, data.val, pem, r) ELSE wires
           /\ entropy' = IF data.ok THEN EntropyAfter(r, entropy) ELSE entropy
    /\ UNCHANGED <<original, files, dirs, concVars>>

\* The calls of decrypt_bytes a behaviour makes: an intact payload with any
\* PEM, a damaged payload with the private key of its recipient.
DecryptInputs(w) ==
    {<<"none", pem>> : pem \in PrivatePems \cup {Keyring[1].public}}
    \cup {<<t, Keyring[wires[w].kid].private>> : t \in Tampers \ {"none"}}

DecryptBytes(w, t, pem) ==
    /\ LET input == Tamper(wires[w].payload, t, pem.key_size \div 8)
           padded == decrypt_padded(input, pem)
       IN  call' = [NoCall EXCEPT !.op = "decrypt_bytes", !.pem = pem,
                                  !.w = w, !.tamper = t,
                                  !.padded = padded,
                                  !.result = decrypt_finish(padded)]
    /\ UNCHANGED <<original, wires, entropy, files, dirs, concVars>>

\* The calls of decrypt_image a behaviour makes: with the private key of the
\* recipient and with the private key of somebody else.
DecryptImagePems(w) == {Keyring[wires[w].kid].private, Keyring[2].private}

DecryptImage(w, pem) ==
    /\ call' = [NoCall EXCEPT !.op = "decrypt_image", !.pem = pem, !.w = w,
                               !.tamper = "none",
                               !.result = decrypt_image(wires[w].payload, pem)]
    /\ UNCHANGED <<original, wires, entropy, files, dirs, concVars>>

Next ==
    \/ \E pem \in EncryptPems \cup {Keyring[1].private} : EncryptBytes(pem)
    \/ \E pem \in EncryptPems : EncryptImage(pem)
    \/ \E w \in DOMAIN wires : \E i \in DecryptInputs(w) :
          DecryptBytes(w, i[1], i[2])
    \/ \E w \in DOMAIN wires : \E pem \in DecryptImagePems(w) :
          DecryptImage(w, pem)

Spec == Init /\ [][Next]_vars

(***************************************************************************)
(* Files.  A path is "<directory>/<name>"; open(path, "rb") needs the file *)
(* to exist, open(path, "wb") needs the directory to exist and to be       *)
(* writable, and creates or truncates the file.                            *)
(***************************************************************************)
FilePaths == {"tmp/a", "tmp/b", "tmp/c", "new/b", "ro/b"}

\* The names f"encrypted_image_{i}.rsa" in the working directory, i = 0, 1, ...
CandidateNames ==
    <<"cwd/encrypted_image_0.rsa", "cwd/encrypted_image_1.rsa",
      "cwd/encrypted_image_2.rsa", "cwd/encrypted_image_3.rsa",
      "cwd/encrypted_image_4.rsa", "cwd/encrypted_image_5.rsa">>

\* Path(path).parent
Parent(path) ==
    CASE path = "new/b" -> "new"
      [] path = "ro/b" -> "ro"
      [] path = "out/x.rsa" -> "out"
      [] \E i \in DOMAIN CandidateNames : path = CandidateNames[i] -> "cwd"
      [] OTHER -> "tmp"

ReadOnlyDirs == {"ro"}

\* The error kind IOError: OSError and its subclasses.
IsIOError(r) ==
    ~r.ok /\ r.exc \in {"FileNotFoundError", "PermissionError"}

\* with open(path, "rb") as f: data = f.read()
open_rb(fs, path) ==
    IF fs[path].exists THEN Ok(fs[path].content)
    ELSE Err("FileNotFoundError", "open(in_path)")

\* open(path, "wb"): the file system after the open, or the exception.
open_wb(fs, ds, path) ==
    IF Parent(path) \notin ds THEN Err("FileNotFoundError", "open(out_path)")
    ELSE IF Parent(path) \in ReadOnlyDirs
    THEN Err("PermissionError", "open(out_path)")
    ELSE Ok([fs EXCEPT ![path] = File(<<>>)])

\* f.write(data) on a file opened with "wb", then close
f_write(fs, path, data) ==
    [fs EXCEPT ![path] = File(fs[path].content \o data)]

\* The outcome of a file call: what it returned or raised, the file system
\* it leaves, the entropy counter, and its local `data` / `enc_data`.
Outcome(r, fs, ds, c, read) ==
    [result |-> r, files |-> fs, dirs |-> ds, entropy |-> c, read |-> read]

\* Variant of encrypt_file: the parent directory of out_path is created
\* first, as RSAEncryptNode.encrypt does for its target.
encrypt_file_mkdir(fs, ds, in_path, out_path, public_key_pem, c) ==
    LET data == open_rb(fs, in_path)
        enc == encrypt_bytes(data.val, public_key_pem, c)
        made == ds \cup {Parent(out_path)}
        opened == open_wb(fs, made, out_path)
    IN  IF ~data.ok THEN Outcome(data, fs, ds, c, data)
        ELSE IF ~enc.ok THEN Outcome(enc, fs, ds, EntropyAfter(enc, c), data)
        ELSE IF ~opened.ok
        THEN Outcome(opened, fs, made, EntropyAfter(enc, c), data)
        ELSE Outcome(Ok(<<>>), f_write(opened.val, out_path, enc.val), made,
                     EntropyAfter(enc, c), data)

\* Variant of encrypt_file: out_path is opened for writing before in_path is
\* read and the data encrypted.
encrypt_file_open_first(fs, ds, in_path, out_path, public_key_pem, c) ==
    LET opened == open_wb(fs, ds, out_path)
        data == open_rb(opened.val, in_path)
        enc == encrypt_bytes(data.val, public_key_pem, c)
    IN  IF ~opened.ok THEN Outcome(opened, fs, ds, c, NoResult)
        ELSE IF ~data.ok THEN Outcome(data, opened.val, ds, c, data)
        ELSE IF ~enc.ok
        THEN Outcome(enc, opened.val, ds, EntropyAfter(enc, c), data)
        ELSE Outcome(Ok(<<>>), f_write(opened.val, out_path, enc.val), ds,
                     EntropyAfter(enc, c), data)

\* encrypt_file
encrypt_file(fs, ds, in_path, out_path, public_key_pem, c) ==
    LET data == open_rb(fs, in_path)
        enc == encrypt_bytes(data.val, public_key_pem, c)
        opened == open_wb(fs, ds, out_path)
    IN  IF ~data.ok THEN Outcome(data, fs, ds, c, data)
        ELSE IF ~enc.ok THEN Outcome(enc, fs, ds, EntropyAfter(enc, c), data)
        ELSE IF ~opened.ok
        THEN Outcome(opened, fs, ds, EntropyAfter(enc, c), data)
        ELSE Outcome(Ok(<<>>), f_write(opened.val, out_path, enc.val), ds,
                     EntropyAfter(enc, c), data)

\* Variant of decrypt_file: the bytes read are written, not the plaintext.
decrypt_file_raw(fs, ds, in_path, out_path, private_key_pem, c) ==
    LET enc_data == open_rb(fs, in_path)
        data == decrypt_bytes(enc_data.val, private_key_pem)
        opened == open_wb(fs, ds, out_path)
    IN  IF ~enc_data.ok THEN Outcome(enc_data, fs, ds, c, enc_data)
        ELSE IF ~data.ok THEN Outcome(data, fs, ds, c, enc_data)
        ELSE IF ~opened.ok THEN Outcome(opened, fs, ds, c, enc_data)
        ELSE Outcome(Ok(<<>>), f_write(opened.val, out_path, enc_data.val),
                     ds, c, enc_data)

\* Variant of decrypt_file: a failed decryption is caught and an empty
\* plaintext is written.
decrypt_file_lenient(fs, ds, in_path, out_path, private_key_pem, c) ==
    LET enc_data == open_rb(fs, in_path)
        data == decrypt_bytes(enc_data.val, private_key_pem)
        opened == open_wb(fs, ds, out_path)
    IN  IF ~enc_data.ok THEN Outcome(enc_data, fs, ds, c, enc_data)
        ELSE IF ~opened.ok THEN Outcome(opened, fs, ds, c, enc_data)
        ELSE Outcome(Ok(<<>>),
                     f_write(opened.val, out_path,
                             IF data.ok THEN data.val ELSE <<>>),
                     ds, c, enc_data)

\* decrypt_file
decrypt_file(fs, ds, in_path, out_path, private_key_pem, c) ==
    LET enc_data == open_rb(fs, in_path)
        data == decrypt_bytes(enc_data.val, private_key_pem)
        opened == open_wb(fs, ds, out_path)
    IN  IF ~enc_data.ok THEN Outcome(enc_data, fs, ds, c, enc_data)
        ELSE IF ~data.ok THEN Outcome(data, fs, ds, c, enc_data)
        ELSE IF ~opened.ok THEN Outcome(opened, fs, ds, c, enc_data)
        ELSE Outcome(Ok(<<>>), f_write(opened.val, out_path, data.val),
                     ds, c, enc_data)

(***************************************************************************)
(* File API: known bytes are written to tmp/a, then each action is one     *)
(* call of encrypt_file or decrypt_file.                                   *)
(***************************************************************************)
FileContents == {b \in Buffers : Len(b) \in {0, BLOCK, 22}}

FileInit ==
    /\ original \in {Bytes(b) : b \in FileContents}
    /\ wires = <<>>
    /\ call = NoCall
    /\ entropy = 0
    /\ files = [p \in FilePaths |->
                   IF p = "tmp/a" THEN File(original.val) ELSE NoFile]
    /\ dirs = {"tmp", "ro"}
    /\ job = <<>> /\ pc = <<>> /\ local = <<>>

FileCall(op, in_path, out_path, pem, o) ==
    /\ call' = [NoCall EXCEPT !.op = op, !.pem = pem, !.in_path = in_path,
                              !.out_path = out_path, !.cipher_in = o.read,
                              !.result = o.result]
    /\ files' = o.files
    /\ dirs' = o.dirs
    /\ entropy' = o.entropy
    /\ UNCHANGED <<original, wires, concVars>>

EncryptFile(in_path, out_path, pem) ==
    /\ entropy < MaxEncrypts * DRAWS_PER_ENCRYPT
    /\ \E o \in {encrypt_file(files, dirs, in_path, out_path, pem, entropy)} :
          FileCall("encrypt_file", in_path, out_path, pem, o)

DecryptFile(in_path, out_path, pem) ==
    \E o \in {decrypt_file(files, dirs, in_path, out_path, pem, entropy)} :
        FileCall("decrypt_file", in_path, out_path, pem, o)

FileNext ==
    \/ \E in_path \in {"tmp/a", "tmp/c"},
          out_path \in {"tmp/b", "new/b", "ro/b"},
          pem \in EncryptPems \cup {Keyring[1].private} :
          EncryptFile(in_path, out_path, pem)
    \/ \E in_path \in {"tmp/a", "tmp/b"},
          out_path \in {"tmp/c", "new/b", "tmp/b"},
          pem \in PrivatePems \cup {Keyring[1].public} :
          DecryptFile(in_path, out_path, pem)

FileSpec == FileInit /\ [][FileNext]_vars

(***************************************************************************)
(* Concurrent calls.  Each of NProcs threads makes one call with its own   *)
(* buffer and its own paths; the keys are shared.  A step is one access to *)
(* what the calls could share (a file, the entropy source) together with   *)
(* the computation on locals that follows it.                              *)
(***************************************************************************)
NProcs == 2

Procs == 1..NProcs

InPath(p) == <<"tmp/in1", "tmp/in2", "tmp/in3", "tmp/in4">>[p]
OutPath(p) == <<"tmp/out1", "tmp/out2", "tmp/out3", "tmp/out4">>[p]

ConcPaths == {InPath(p) : p \in Procs} \cup {OutPath(p) : p \in Procs}

\* The buffer of thread p, and a wire payload of it made beforehand for
\* RecipientOf(p).
Content(p) == IF p % 2 = 1 THEN Pattern(1, 22) ELSE Pattern(2, BLOCK)

RecipientOf(p) == IF p % 2 = 1 THEN 1 ELSE 3

\* The payloads were made with draws taken long before the calls start.
PreparedDraw(p) == 64 + (p * DRAWS_PER_ENCRYPT)

Prepared(p) ==
    encrypt_bytes(Content(p), Keyring[RecipientOf(p)].public,
                  PreparedDraw(p)).val

\* The calls thread p may make: an encryption for its recipient, or a
\* decryption with the recipient's private key or (for a file) with a
\* foreign one.  Threads beyond the second make byte calls only.
ByteJobsOf(p) ==
    { [op |-> "encrypt_bytes", pem |-> Keyring[RecipientOf(p)].public,
       input |-> Content(p)],
      [op |-> "decrypt_bytes", pem |-> Keyring[RecipientOf(p)].private,
       input |-> Prepared(p)] }

FileJobsOf(p) ==
    { [op |-> "encrypt_file", pem |-> Keyring[RecipientOf(p)].public,
       input |-> Content(p)],
      [op |-> "decrypt_file", pem |-> Keyring[RecipientOf(p)].private,
       input |-> Prepared(p)],
      [op |-> "decrypt_file", pem |-> Keyring[2].private,
       input |-> Prepared(p)] }

JobsOf(p) == IF p <= 2 THEN ByteJobsOf(p) \cup FileJobsOf(p) ELSE ByteJobsOf(p)

IsFileOp(op) == op \in {"encrypt_file", "decrypt_file"}
IsEncryptOp(op) == op \in {"encrypt_bytes", "encrypt_file"}

NoDraw == 0 - 1

NoLocal == [data |-> NoResult, ck |-> NoDraw, civ |-> NoDraw, cs |-> NoDraw,
            enc |-> NoResult, result |-> NoResult]

\* Variant of SetLocal: the value is kept in a module-level variable that
\* all calls share.
SetShared(l, p, v) == [q \in DOMAIN l |-> v]

\* Binding of the local variables of call p.
SetLocal(l, p, v) == [l EXCEPT ![p] = v]

ConcInit ==
    /\ original = Bytes(<<>>)
    /\ wires = <<>>
    /\ call = NoCall
    /\ entropy = 0
    /\ dirs = {"tmp"}
    /\ job \in [Procs -> UNION {JobsOf(p) : p \in Procs}]
    /\ \A p \in Procs : job[p] \in JobsOf(p)
    /\ files = [path \in ConcPaths |->
                  IF \E p \in Procs : path = InPath(p) /\ IsFileOp(job[p].op)
                  THEN File(job[CHOOSE p \in Procs : path = InPath(p)].input)
                  ELSE NoFile]
    /\ pc = [p \in Procs |->
                CASE IsFileOp(job[p].op) -> "read"
                  [] job[p].op = "encrypt_bytes" -> "draw_key"
                  [] job[p].op = "decrypt_bytes" -> "cipher"]
    /\ local = [p \in Procs |->
                   IF IsFileOp(job[p].op) THEN NoLocal
                   ELSE [NoLocal EXCEPT !.data = Ok(job[p].input)]]

Goto(p, label) == pc' = [pc EXCEPT ![p] = label]

Return(p, r) ==
    /\ local' = SetLocal(local, p, [local[p] EXCEPT !.result = r])
    /\ Goto(p, "done")

\* with open(in_path, "rb") as f: data = f.read()
CRead(p) ==
    /\ pc[p] = "read"
    /\ LET r == open_rb(files, InPath(p))
       IN  IF r.ok
           THEN /\ local' = SetLocal(local, p, [local[p] EXCEPT !.data = r])
                /\ Goto(p, IF IsEncryptOp(job[p].op) THEN "draw_key"
                           ELSE "cipher")
           ELSE Return(p, r)
    /\ UNCHANGED <<original, wires, call, entropy, files, dirs, job>>

\* aes_key = os.urandom(32)
CDrawKey(p) ==
    /\ pc[p] = "draw_key"
    /\ local' = SetLocal(local, p, [local[p] EXCEPT !.ck = entropy])
    /\ entropy' = entropy + 1
    /\ Goto(p, "draw_iv")
    /\ UNCHANGED <<original, wires, call, files, dirs, job>>

\* iv = os.urandom(16)
CDrawIv(p) ==
    /\ pc[p] = "draw_iv"
    /\ local' = SetLocal(local, p, [local[p] EXCEPT !.civ = entropy])
    /\ entropy' = entropy + 1
    /\ Goto(p, "wrap")
    /\ UNCHANGED <<original, wires, call, files, dirs, job>>

\* public_key.encrypt draws the OAEP seed; then the rest of encrypt_bytes.
CWrap(p) ==
    /\ pc[p] = "wrap"
    /\ entropy' = entropy + 1
    /\ \E enc \in {encrypt_bytes_with(local[p].data.val, job[p].pem,
                                      local[p].ck, local[p].civ, entropy)} :
          /\ local' = SetLocal(local, p,
                 [local[p] EXCEPT !.cs = entropy, !.enc = enc,
                    !.result = IF IsFileOp(job[p].op) /\ enc.ok
                               THEN NoResult ELSE enc])
          /\ Goto(p, IF IsFileOp(job[p].op) /\ enc.ok THEN "open" ELSE "done")
    /\ UNCHANGED <<original, wires, call, files, dirs, job>>

\* decrypt_bytes
CDecrypt(p) ==
    /\ pc[p] = "cipher"
    /\ \E data \in {decrypt_bytes(local[p].data.val, job[p].pem)} :
          /\ local' = SetLocal(local, p,
                 [local[p] EXCEPT !.enc = data,
                    !.result = IF IsFileOp(job[p].op) /\ data.ok
                               THEN NoResult ELSE data])
          /\ Goto(p, IF IsFileOp(job[p].op) /\ data.ok THEN "open" ELSE "done")
    /\ UNCHANGED <<original, wires, call, entropy, files, dirs, job>>

\* open(out_path, "wb")
COpen(p) ==
    /\ pc[p] = "open"
    /\ LET r == open_wb(files, dirs, OutPath(p))
       IN  IF r.ok
           THEN /\ files' = r.val
                /\ Goto(p, "write")
                /\ UNCHANGED local
           ELSE /\ Return(p, r)
                /\ UNCHANGED files
    /\ UNCHANGED <<original, wires, call, entropy, dirs, job>>

\* f.write(enc); the call returns None
CWrite(p) ==
    /\ pc[p] = "write"
    /\ files' = f_write(files, OutPath(p), local[p].enc.val)
    /\ Return(p, Ok(<<>>))
    /\ UNCHANGED <<original, wires, call, entropy, dirs, job>>

ConcNext ==
    \E p \in Procs :
        \/ CRead(p)
        \/ CDrawKey(p)
        \/ CDrawIv(p)
        \/ CWrap(p)
        \/ CDecrypt(p)
        \/ COpen(p)
        \/ CWrite(p)

ConcSpec == ConcInit /\ [][ConcNext]_vars

(***************************************************************************)
(* RSAEncryptNode.encrypt.  Each action is one call; the calls run one     *)
(* after another in a working directory that may already hold files.       *)
(***************************************************************************)
\* Arrays handed to the node: the shape and the uint8 samples in row order.
Ndarray(shape, v) == [type |-> "ndarray", val |-> v, mode |-> "", size |-> shape]

\* Image.fromarray(arr, mode) for an array of shape (height, width[, bands])
fromarray(shape, v, mode) == PilImage(mode, <<shape[2], shape[1]>>, v)

\* The conversion of the image input to a PIL image; every exception in it
\* is raised again as ValueError("Unsupported image input: ...").
to_pil(image) ==
    IF image.type = "ndarray"
    THEN LET batched == Len(image.size) = 4
             shape == IF batched THEN Tail(image.size) ELSE image.size
             arr == IF batched
                    THEN Slice(image.val, 0, Len(image.val) \div image.size[1])
                    ELSE image.val
         IN  IF Len(shape) = 3
             THEN IF shape[3] = 4 THEN Ok(fromarray(shape, arr, "RGBA"))
                  ELSE IF shape[3] = 3 THEN Ok(fromarray(shape, arr, "RGB"))
                  ELSE Err("ValueError", "image conversion")
             ELSE IF Len(shape) = 2 THEN Ok(fromarray(shape, arr, "L"))
             ELSE Err("ValueError", "image conversion")
    ELSE IF image.type = "Image" THEN Ok(image)
    ELSE Err("ValueError", "image conversion")

\* out_path is None or a string; None and "" are false in `if out_path:`.
None == "None"
Truthy(out_path) == out_path \notin {None, ""}

\* base.with_name(f"encrypted_image_{i}.rsa")
with_name(i) == CandidateNames[i + 1]

\* The loop over i = 0, 1, ... that ends at the first candidate that does
\* not exist.
RECURSIVE first_free(_, _)
first_free(fs, i) ==
    IF ~fs[with_name(i)].exists THEN with_name(i) ELSE first_free(fs, i + 1)

\* Variant of target_path: the automatic name is always the first candidate.
target_path_fixed(fs, out_path) ==
    IF Truthy(out_path) THEN out_path ELSE with_name(0)

\* "Determine output path"
target_path(fs, out_path) ==
    IF Truthy(out_path) THEN out_path ELSE first_free(fs, 0)

\* target.parent.mkdir(parents=True, exist_ok=True)
mkdir_parents(ds, path) == ds \cup {Parent(path)}

\* RSAEncryptNode.encrypt
RSAEncryptNode_encrypt(fs, ds, image, public_key_pem, out_path, c) ==
    LET pil_img == to_pil(image)
        enc_bytes == encrypt_image(pil_img.val, public_key_pem, c)
        target == target_path(fs, out_path)
        made == mkdir_parents(ds, target)
        opened == open_wb(fs, made, target)
    IN  IF ~pil_img.ok THEN Outcome(pil_img, fs, ds, c, pil_img)
        ELSE IF ~enc_bytes.ok
        THEN Outcome(enc_bytes, fs, ds, EntropyAfter(enc_bytes, c), enc_bytes)
        ELSE IF ~opened.ok
        THEN Outcome(opened, fs, made, EntropyAfter(enc_bytes, c), enc_bytes)
        ELSE Outcome(Ok(<<target>>), f_write(opened.val, target, enc_bytes.val),
                     made, EntropyAfter(enc_bytes, c), enc_bytes)

NodePaths ==
    {CandidateNames[i] : i \in DOMAIN CandidateNames} \cup {"out/x.rsa", "ro/b"}

\* Image inputs: a PIL image, arrays with and without a batch dimension,
\* an array with two channels, and objects that are no image.
NodeImages ==
    { PilImage("RGB", <<2, 1>>, <<255, 0, 0, 255, 0, 0>>),
      Ndarray(<<1, 1, 1, 4>>, <<255, 0, 0, 128>>),
      Ndarray(<<1, 1>>, <<200>>),
      Ndarray(<<1, 1, 2>>, <<7, 9>>),
      Bytes(<<1, 2, 3>>),
      Other("str", <<104, 105>>) }

\* What the working directory holds before the first call.
NodeCwds == { {}, {with_name(0)}, {with_name(1)}, {with_name(0), with_name(2)} }

\* The content of a file that was in the working directory before.
OLD_CONTENT == <<79, 76, 68>>

NodeInit ==
    /\ original \in NodeImages
    /\ wires = <<>>
    /\ call = NoCall
    /\ entropy = 0
    /\ \E cwd \in NodeCwds :
          files = [p \in NodePaths |->
                      IF p \in cwd THEN File(OLD_CONTENT) ELSE NoFile]
    /\ dirs = {"cwd", "ro"}
    /\ job = <<>> /\ pc = <<>> /\ local = <<>>

\* One call of the node.  wires lists the payloads written by the calls that
\* returned, each with the path returned and the out_path given.
NodeEncrypt(pem, out_path) ==
    /\ entropy < MaxEncrypts * DRAWS_PER_ENCRYPT
    /\ \E o \in {RSAEncryptNode_encrypt(files, dirs, original, pem, out_path,
                                        entropy)} :
          /\ call' = [NoCall EXCEPT !.op = "RSAEncryptNode.encrypt",
                                    !.pem = pem, !.out_path = out_path,
                                    !.cipher_in = o.read, !.result = o.result]
          /\ wires' = IF o.result.ok
                      THEN Append(wires, [data |-> out_path, kid |-> pem.id,
                                          payload |-> o.read.val,
                                          path |-> o.result.val[1]])
                      ELSE wires
          /\ files' = o.files
          /\ dirs' = o.dirs
          /\ entropy' = o.entropy
    /\ UNCHANGED <<original, concVars>>

NodeNext ==
    \E pem \in {Keyring[1].public, Keyring[1].private},
       out_path \in {None, "", "out/x.rsa", "ro/b", with_name(1)} :
       NodeEncrypt(pem, out_path)

NodeSpec == NodeInit /\ [][NodeNext]_vars

(***************************************************************************)
(* Properties of the byte and image API.                                   *)
(***************************************************************************)
IsDecrypt == call.op = "decrypt_bytes"

\* The call decrypted an undamaged payload with its recipient's private key.
MatchingDecrypt ==
    /\ IsDecrypt
    /\ call.tamper = "none"
    /\ call.pem = Keyring[wires[call.w].kid].private

\* C1: round trip.  Decrypting what encrypt_bytes returned for B under
\* K.public with K.private returns exactly B, for every buffer (the empty
\* one and block-aligned ones included) and 2048- and 4096-bit keys.
C1_RoundTrip ==
    MatchingDecrypt => call.result = Ok(wires[call.w].data)

C1_Witness ==
    /\ MatchingDecrypt
    /\ call.pem.key_size = 4096
    /\ Len(wires[call.w].data) = BLOCK
    /\ call.result = Ok(wires[call.w].data)

\* The padding of an AES-decrypted buffer is malformed: its last byte N is
\* outside 1..16 or its last N bytes are not all N.
BadPadding(p) ==
    LET N == p[Len(p)]
    IN  \/ N < 1
        \/ N > BLOCK
        \/ \E i \in (Len(p) - N + 1)..Len(p) : p[i] # N

\* C2: stripping the padding fails (InvalidPadding; an exception of any type
\* is accepted here) when the padding is malformed, and only otherwise
\* returns the buffer without its trailing N bytes.
C2_StripRejectsBadPadding ==
    (IsDecrypt /\ call.padded.ok /\ Len(call.padded.val) > 0) =>
        LET p == call.padded.val
        IN  IF BadPadding(p) THEN ~call.result.ok
            ELSE call.result = Ok(SubSeq(p, 1, Len(p) - p[Len(p)]))

IsEncrypt == call.op \in {"encrypt_bytes", "encrypt_image"}

C4_CrossKeyFails ==
    (IsDecrypt /\ call.pem.kind = "PRIVATE KEY"
               /\ call.pem.id # wires[call.w].kid) =>
        call.result = DecryptionFailed

C4_Witness ==
    /\ IsDecrypt
    /\ call.pem = Keyring[2].private
    /\ wires[call.w].kid = 1
    /\ call.result = DecryptionFailed

\* The IV and the AES key a wire payload was made with, as its recipient
\* recovers them.
WireIv(w) ==
    LET k == Keyring[w.kid].public.key_size \div 8
    IN  Slice(w.payload, k, k + IV_SIZE)

WireAesKey(w) ==
    LET k == Keyring[w.kid].public.key_size \div 8
    IN  rsa_oaep_decrypt(Keyring[w.kid].private, Slice(w.payload, 0, k))

\* C5: every encrypt call uses a fresh 32-byte AES key and a fresh 16-byte
\* IV, never those of an earlier call; two encryptions of the same buffer
\* for the same public key differ, and both decrypt to that buffer.
C5_FreshKeyAndIv ==
    \A i, j \in DOMAIN wires :
        i < j =>
            /\ Len(WireIv(wires[i])) = IV_SIZE
            /\ WireAesKey(wires[i]).ok
            /\ Len(WireAesKey(wires[i]).val) = AES_KEY_SIZE
            /\ WireIv(wires[i]) # WireIv(wires[j])
            /\ WireAesKey(wires[i]) # WireAesKey(wires[j])
            /\ (wires[i].kid = wires[j].kid /\ wires[i].data = wires[j].data) =>
                /\ wires[i].payload # wires[j].payload
                /\ decrypt_bytes(wires[i].payload,
                                 Keyring[wires[i].kid].private)
                       = Ok(wires[i].data)
                /\ decrypt_bytes(wires[j].payload,
                                 Keyring[wires[j].kid].private)
                       = Ok(wires[i].data)

C5_Witness ==
    /\ Len(wires) >= 2
    /\ wires[1].kid = wires[2].kid
    /\ wires[1].data = wires[2].data
    /\ wires[1].payload # wires[2].payload

IsByte(b) == b \in 0..255

\* C8: _ensure_bytes returns bytes unchanged, turns an image into PNG bytes
\* and raises for any other type; encrypt_image hands the cipher raw bytes
\* only and encrypts nothing for an unsupported payload.
C8_EnsureBytes ==
    (call.op = "encrypt_image") =>
        /\ original.type = "bytes" => call.cipher_in = Ok(original.val)
        /\ original.type = "Image" =>
              /\ call.cipher_in.ok
              /\ SubSeq(call.cipher_in.val, 1, 8) = PNG_SIGNATURE
              /\ SubSeq(call.cipher_in.val, 12, Len(call.cipher_in.val))
                     = original.val
        /\ original.type \notin {"bytes", "Image"} =>
              /\ call.result = UnsupportedPayloadType
              /\ ~call.cipher_in.ok
              /\ wires = <<>>
        /\ call.cipher_in.ok =>
              \A i \in DOMAIN call.cipher_in.val : IsByte(call.cipher_in.val[i])
        /\ call.result.ok =>
              decrypt_bytes(call.result.val, Keyring[call.pem.id].private)
                  = call.cipher_in

C8_Witness ==
    /\ call.op = "encrypt_image"
    /\ original.type = "str"
    /\ call.result = UnsupportedPayloadType
    /\ wires = <<>>

\* The buffer an encrypt call AES-encrypted, read back from the wire payload
\* it returned with the private key of the recipient.
PaddedOnWire == decrypt_padded(call.result.val, Keyring[call.pem.id].private)

\* C12: encrypt pads the plaintext with N bytes of value N, where
\* N = 16 - (len mod 16), so 1 <= N <= 16; a plaintext whose length is a
\* multiple of 16 gets a whole block of sixteen bytes of value 16, and the
\* empty plaintext becomes one block of sixteen bytes 0x10.
C12_Padding ==
    (IsEncrypt /\ call.result.ok) =>
        LET plaintext == call.cipher_in.val
            N == 16 - (Len(plaintext) % 16)
            padded == PaddedOnWire
        IN  /\ N >= 1 /\ N <= 16
            /\ padded.ok
            /\ Len(padded.val) = Len(plaintext) + N
            /\ SubSeq(padded.val, 1, Len(plaintext)) = plaintext
            /\ \A i \in (Len(plaintext) + 1)..Len(padded.val) :
                   padded.val[i] = N
            /\ Len(plaintext) % 16 = 0 =>
                   SubSeq(padded.val, Len(plaintext) + 1, Len(plaintext) + 16)
                       = <<16, 16, 16, 16, 16, 16, 16, 16,
                           16, 16, 16, 16, 16, 16, 16, 16>>
            /\ plaintext = <<>> =>
                   padded.val = <<16, 16, 16, 16, 16, 16, 16, 16,
                                  16, 16, 16, 16, 16, 16, 16, 16>>

C12_Witness ==
    /\ call.op = "encrypt_bytes"
    /\ call.result.ok
    /\ call.cipher_in.val = <<>>
    /\ PaddedOnWire = Ok(Repeat(16, 16))

FileStep(op) == call'.op = op /\ vars' # vars

\* The private key of the recipient of an encrypt call.
RecipientKey(pem) == Keyring[pem.id].private

\* C6 as claimed: encrypt_file creates the missing parent directories of
\* out_path; with in_path readable and the parent of out_path missing, the
\* call succeeds and out_path holds the wire payload afterwards.
C6_CreatesParentDirs ==
    [][(/\ FileStep("encrypt_file")
        /\ call'.pem.kind = "PUBLIC KEY"
        /\ files[call'.in_path].exists
        /\ Parent(call'.out_path) \notin dirs
        /\ Parent(call'.out_path) \notin ReadOnlyDirs)
       => /\ call'.result.ok
          /\ files'[call'.out_path].exists
          /\ decrypt_bytes(files'[call'.out_path].content,
                           RecipientKey(call'.pem))
                 = Ok(files[call'.in_path].content)]_vars

\* C6 as amended: encrypt_file creates no directory.  With in_path readable,
\* it succeeds and leaves the wire payload in out_path when the parent
\* directory of out_path exists (and is writable); when that directory is
\* missing it fails with IOError and creates neither directory nor file.
C6_NeedsParentDir ==
    [][(/\ FileStep("encrypt_file")
        /\ call'.pem.kind = "PUBLIC KEY"
        /\ files[call'.in_path].exists)
       => /\ dirs' = dirs
          /\ (Parent(call'.out_path) \in dirs \ ReadOnlyDirs) =>
                /\ call'.result.ok
                /\ files'[call'.out_path].exists
                /\ decrypt_bytes(files'[call'.out_path].content,
                                 RecipientKey(call'.pem))
                       = Ok(files[call'.in_path].content)
          /\ (Parent(call'.out_path) \notin dirs) =>
                /\ call'.result = Err("FileNotFoundError", "open(out_path)")
                /\ IsIOError(call'.result)
                /\ files' = files]_vars

C6_Witness ==
    /\ call.op = "encrypt_file"
    /\ call.in_path = "tmp/a"
    /\ call.out_path = "new/b"
    /\ call.cipher_in.ok
    /\ IsIOError(call.result)
    /\ "new" \notin dirs
    /\ ~files["new/b"].exists

\* C7: file round trip.  encrypt_file(a, b, K.public) followed by
\* decrypt_file(b, c, K.private) leaves in c exactly the bytes D that a
\* held, and a still holds D.
C7_FileRoundTrip ==
    [][(/\ call.op = "encrypt_file"
        /\ call.result.ok
        /\ call.in_path # call.out_path
        /\ FileStep("decrypt_file")
        /\ call'.in_path = call.out_path
        /\ call'.out_path \notin {call.in_path, call.out_path}
        /\ Parent(call'.out_path) \in dirs \ ReadOnlyDirs
        /\ call'.pem = RecipientKey(call.pem))
       => /\ call'.result.ok
          /\ files'[call'.out_path] = File(call.cipher_in.val)
          /\ files'[call.in_path] = File(call.cipher_in.val)]_vars

C7_Witness ==
    /\ call.op = "decrypt_file"
    /\ call.result.ok
    /\ call.in_path = "tmp/b"
    /\ call.out_path = "tmp/c"
    /\ Len(original.val) = 22
    /\ files["tmp/a"] = File(original.val)
    /\ files["tmp/c"] = File(original.val)
    /\ files["tmp/b"].content # original.val

\* What the cipher returns or raises for the bytes a file call read.
CipherOutcome(op, data, pem, c) ==
    IF op = "encrypt_file" THEN encrypt_bytes(data, pem, c)
    ELSE decrypt_bytes(data, pem)

\* C9: encrypt_file and decrypt_file fail with IOError when in_path cannot
\* be read or out_path cannot be written, and raise the cipher's error
\* unchanged when the cipher fails: no error is swallowed or turned into a
\* success, and the cipher is not called again.
C9_ErrorsPropagate ==
    [][(FileStep("encrypt_file") \/ FileStep("decrypt_file")) =>
        LET read == open_rb(files, call'.in_path)
            r == CipherOutcome(call'.op, read.val, call'.pem, entropy)
            writable == Parent(call'.out_path) \in dirs \ ReadOnlyDirs
        IN  /\ ~read.ok =>
                /\ IsIOError(call'.result)
                /\ call'.result.at = "open(in_path)"
                /\ entropy' = entropy
                /\ files' = files
            /\ (read.ok /\ ~r.ok) =>
                /\ call'.result = r
                /\ entropy' \in {entropy, entropy + DRAWS_PER_ENCRYPT}
                /\ files' = files
            /\ (read.ok /\ r.ok /\ ~writable) =>
                /\ IsIOError(call'.result)
                /\ call'.result.at = "open(out_path)"
                /\ files' = files
            /\ call'.result.ok <=> (read.ok /\ r.ok /\ writable)]_vars

C9_Witness ==
    /\ call.op = "decrypt_file"
    /\ call.in_path = "tmp/b"
    /\ files["tmp/b"].exists
    /\ call.result = DecryptionFailed
    /\ ~files[call.out_path].exists

\* The call failed in reading in_path or in the cipher, before out_path is
\* opened.
FailedBeforeOpen(c) == ~c.result.ok /\ c.result.at # "open(out_path)"

\* C13: when reading in_path or the encrypt/decrypt step fails, encrypt_file
\* and decrypt_file leave out_path as it was before the call: not created,
\* not truncated, not written; and a call whose in_path differs from its
\* out_path leaves in_path as it was.
C13_OutputOnlyAfterSuccess ==
    [][(FileStep("encrypt_file") \/ FileStep("decrypt_file")) =>
        /\ FailedBeforeOpen(call') =>
              /\ files'[call'.out_path] = files[call'.out_path]
              /\ files' = files
              /\ dirs' = dirs
        /\ call'.in_path # call'.out_path =>
              files'[call'.in_path] = files[call'.in_path]]_vars

\* A call failed in the cipher and the file at its out_path, written by an
\* earlier call, is still there with its content.
C13_Witness ==
    /\ call.op \in {"encrypt_file", "decrypt_file"}
    /\ FailedBeforeOpen(call)
    /\ call.result.at # "open(in_path)"
    /\ files[call.in_path].exists
    /\ files[call.out_path].exists
    /\ Len(files[call.out_path].content) > 0

(***************************************************************************)
(* Properties of RSAEncryptNode.encrypt.                                   *)
(***************************************************************************)
NodeStep == call'.op = "RSAEncryptNode.encrypt" /\ vars' # vars

\* The paths returned so far by calls without out_path.
AutoPaths == {wires[k].path : k \in {j \in DOMAIN wires : ~Truthy(wires[j].data)}}

\* C14: a call of RSAEncryptNode.encrypt without out_path writes to
\* encrypted_image_{i}.rsa in the working directory for the smallest i >= 0
\* whose file does not exist, so it overwrites no existing file and returns
\* a path no earlier such call returned; and a call in which the image
\* conversion or the encryption fails creates no file and no directory.
C14_AutoNameIsFresh ==
    [][NodeStep =>
        /\ (call'.result.ok /\ ~Truthy(call'.out_path)) =>
              \E i \in 0..(Len(CandidateNames) - 1) :
                 /\ call'.result.val = <<CandidateNames[i + 1]>>
                 /\ ~files[CandidateNames[i + 1]].exists
                 /\ \A j \in 0..(i - 1) : files[CandidateNames[j + 1]].exists
                 /\ files' = [files EXCEPT ![CandidateNames[i + 1]] =
                                  File(call'.cipher_in.val)]
                 /\ CandidateNames[i + 1] \notin AutoPaths
                 /\ dirs' = dirs
        /\ (~call'.result.ok /\ call'.result.at # "open(out_path)") =>
              /\ files' = files
              /\ dirs' = dirs]_vars

\* Two calls without out_path have returned in a working directory that
\* held encrypted_image_1.rsa: they wrote the names 0 and 2 and the old file
\* is as it was.
C14_Witness ==
    /\ call.op = "RSAEncryptNode.encrypt"
    /\ Len(wires) = 2
    /\ AutoPaths = {CandidateNames[1], CandidateNames[3]}
    /\ files[CandidateNames[2]] = File(OLD_CONTENT)
    /\ files[CandidateNames[1]].exists /\ files[CandidateNames[3]].exists

(***************************************************************************)
(* Properties of concurrent calls.                                         *)
(***************************************************************************)
\* What call p returns when it runs alone with the draws it received, and
\* what it leaves in its output file.
AloneCipher(p) ==
    IF IsEncryptOp(job[p].op)
    THEN encrypt_bytes_with(job[p].input, job[p].pem,
                            local[p].ck, local[p].civ, local[p].cs)
    ELSE decrypt_bytes(job[p].input, job[p].pem)

AloneResult(p) ==
    IF IsFileOp(job[p].op) /\ AloneCipher(p).ok THEN Ok(<<>>)
    ELSE AloneCipher(p)

AloneOutFile(p) ==
    IF IsFileOp(job[p].op) /\ AloneCipher(p).ok THEN File(AloneCipher(p).val)
    ELSE NoFile

\* C10: concurrent calls with their own buffers and paths need no
\* synchronization.  Under every interleaving a finished call has the
\* result, and leaves the file contents, of the same call run alone; its
\* draws from the entropy source are its own; a call's files are touched by
\* that call only.
C10_Independent ==
    \A p \in Procs :
        /\ files[InPath(p)] =
              IF IsFileOp(job[p].op) THEN File(job[p].input) ELSE NoFile
        /\ pc[p] \in {"read", "draw_key", "draw_iv", "wrap", "cipher", "open"}
              => files[OutPath(p)] = NoFile
        /\ pc[p] = "done" =>
              /\ local[p].result = AloneResult(p)
              /\ files[OutPath(p)] = AloneOutFile(p)
              /\ IsEncryptOp(job[p].op) =>
                    /\ decrypt_bytes(AloneCipher(p).val,
                                     RecipientKey(job[p].pem))
                           = Ok(job[p].input)
                    /\ \A q \in Procs \ {p} :
                          {local[p].ck, local[p].civ, local[p].cs}
                          \cap {local[q].ck, local[q].civ, local[q].cs}
                              \subseteq {NoDraw}

\* Two encrypt_file calls have finished after their steps interleaved (the
\* second drew its key between the draws of the first), each output in place.
C10_Witness ==
    /\ \A p \in Procs : pc[p] = "done"
    /\ job[1].op = "encrypt_file"
    /\ job[2].op = "encrypt_file"
    /\ local[1].result = Ok(<<>>)
    /\ local[2].result = Ok(<<>>)
    /\ local[1].ck < local[2].ck
    /\ local[2].ck < local[1].civ
    /\ files[OutPath(1)].exists
    /\ files[OutPath(2)].exists

====
